---- MODULE Spec2Model ----
(***************************************************************************)
(* A model of the flanders baseline: the divide-and-conquer aggregation    *)
(* rule aggregate_dnc (src/strategies/aggregate.py) and the experiment     *)
(* entry point main (src/main.py).                                         *)
(*                                                                         *)
(* Numbers.  Updates are vectors of small integers.  The mean mu is kept   *)
(* as the numerator of sum/n, and the centered rows as n*x - sum, which    *)
(* scales the matrix handed to the SVD by n and leaves its singular        *)
(* vectors alone.  The dominant right singular vector v of a matrix with   *)
(* two columns is the dominant eigenvector of its 2x2 Gram matrix          *)
(* [[a, b], [b, c]]: for b # 0 it is proportional to                      *)
(* (2b, c - a + sqrt(delta)) with delta = (a - c)^2 + 4 b^2.  A number     *)
(* p + q*sqrt(delta) is the record [p, q]; v is kept unnormalised, so a    *)
(* score of the model is the code's score times |v|^2, a positive factor   *)
(* shared by all clients of an iteration: orders and equalities of scores  *)
(* are those of the code.                                                  *)
(***************************************************************************)
EXTENDS Integers, Sequences, FiniteSets, TLC

\* The largest number of clients in a round, of iterations, of rounds.
MaxClients == 3
MaxIters == 2
MaxRounds == 2

\* The values a coordinate of an update takes, twice the filtering factor c
\* (c is 1/2, 1 or 2), the seeds of cfg.seed.
Vals == {0, 1}
CTwice == {1, 2, 4}
Seeds == {0, 1}

\* The generator of numpy.random has eight states; a process started again
\* finds it in one of these before main seeds it (the first process in
\* state 2).
Entropy == {2, 7}

VARIABLES
  cfg,       \* main: the hydra configuration
  history,   \* main: what is at cfg.server.history_dir
  prior,     \* main: whether an earlier run left records there
  args,      \* aggregate_dnc: results, c, b, niters, num_malicious
  seed,      \* cfg.seed
  build,     \* what the numpy build does where its contract leaves a choice
  rng,       \* the state of the process-wide numpy.random generator
  pc,        \* where the process is
  run,       \* which process run this is
  round,     \* which call of aggregate_dnc of this run
  it,        \* aggregate_dnc: iterations done
  I_good,    \* aggregate_dnc: the kept sets so far
  iters,     \* aggregate_dnc: what each iteration computed
  outcome,   \* how the current call or main ended
  result,    \* aggregate_dnc: aggregated_params
  entry,     \* the generator's state when the current call began
  calls      \* the finished calls of aggregate_dnc

vars == <<cfg, history, prior, args, seed, build, rng, pc, run, round, it,
          I_good, iters, outcome, result, entry, calls>>

mainVars == <<cfg, history, prior>>
dncVars == <<args, build, run, round, it, I_good, iters, result, entry, calls>>

---------------------------------------------------------------------------
\* Arithmetic

Min(x, y) == IF x <= y THEN x ELSE y
Max(x, y) == IF x >= y THEN x ELSE y
Sign(x) == IF x > 0 THEN 1 ELSE IF x < 0 THEN -1 ELSE 0

RECURSIVE SumSeq(_)
SumSeq(s) == IF s = <<>> THEN 0 ELSE Head(s) + SumSeq(Tail(s))

\* The sign of alpha + beta*sqrt(delta), delta >= 0.
SurdSign(alpha, beta, delta) ==
  LET sa == Sign(alpha)
      sb == IF delta = 0 THEN 0 ELSE Sign(beta)
  IN  IF sb = 0 THEN sa
      ELSE IF sa = 0 THEN sb
      ELSE IF sa = sb THEN sa
      ELSE sa * Sign(alpha * alpha - beta * beta * delta)

SurdLess(s1, s2, delta) == SurdSign(s1.p - s2.p, s1.q - s2.q, delta) < 0
SurdEq(s1, s2, delta) == SurdSign(s1.p - s2.p, s1.q - s2.q, delta) = 0

\* (u.p + u.q*sqrt(delta))^2
SurdSquare(u, delta) ==
  [p |-> u.p * u.p + u.q * u.q * delta, q |-> 2 * u.p * u.q]

\* np.inner(x, v) for an integer vector x and a vector v of surds
Inner(x, v) ==
  [p |-> SumSeq([k \in 1..Len(x) |-> x[k] * v[k].p]),
   q |-> SumSeq([k \in 1..Len(x) |-> x[k] * v[k].q])]

---------------------------------------------------------------------------
\* numpy.random

\* One step of the generator.
Advance(s) == (5 * s + 3) % 8

\* A main that leaves the generator as the process found it.
SeedStateUnseeded(sd) == rng

\* np.random.seed(seed); np.random.set_state(RandomState(seed).get_state())
SeedState(sd) == (3 * sd + 1) % 8

\* np.random.randint(0, high, size): the indices drawn, with replacement,
\* and the state the generator is left in.
RECURSIVE randint(_, _, _)
randint(s, high, size) ==
  IF size = 0 THEN [idx |-> <<>>, state |-> s]
  ELSE LET s1 == Advance(s)
           rest == randint(s1, high, size - 1)
       IN  [idx |-> <<(s1 \div 2) % high>> \o rest.idx, state |-> rest.state]

---------------------------------------------------------------------------
\* aggregate_dnc

\* utils.flatten_params: the layers of an update, concatenated in order.
RECURSIVE flatten_params(_)
flatten_params(params) ==
  IF params = <<>> THEN <<>>
  ELSE Head(params) \o flatten_params(Tail(params))

num_clients == Len(args.results)
flattened_params ==
  [i \in 1..num_clients |-> flatten_params(args.results[i].params)]

\* Line 17: whether this call subsamples coordinates.
Subsamples == args.b > 0 /\ Len(flattened_params[1]) > args.b

\* Lines 16-22: the coordinates drawn (none without subsampling) and the
\* generator's state afterwards.
DrawIndexes(s) ==
  IF Subsamples
  THEN randint(s, Len(flattened_params[1]),
               Min(args.b, Len(flattened_params[1])))
  ELSE [idx |-> <<>>, state |-> s]

\* Line 22: fp[params_indexes] for every client; line 16 without subsampling.
sampled_params(idx) ==
  LET fp == flattened_params
  IN  IF Subsamples
      THEN [i \in 1..Len(fp) |-> [k \in 1..Len(idx) |-> fp[i][idx[k] + 1]]]
      ELSE fp

\* Lines 24-27: n times the mean of the sampled updates.
mu(sp) ==
  [k \in 1..Len(sp[1]) |-> SumSeq([i \in 1..Len(sp) |-> sp[i][k]])]

\* Lines 29-31: n times the centered updates.
model_c(sp) ==
  LET n == Len(sp)
      m == mu(sp)
  IN  [i \in 1..n |-> [k \in 1..Len(m) |-> n * sp[i][k] - m[k]]]

Gram(m, j, k) == SumSeq([i \in 1..Len(m) |-> m[i][j] * m[i][k]])

\* Whether the singular values of m are equal (all zero, for one column):
\* then every unit vector is a dominant singular vector.
Isotropic(m) ==
  IF Len(m[1]) = 1 THEN Gram(m, 1, 1) = 0
  ELSE Gram(m, 1, 2) = 0 /\ Gram(m, 1, 1) = Gram(m, 2, 2)

\* Line 32: v[0, :] of np.linalg.svd(model_c), and the delta its surds are
\* over.  For an isotropic matrix with two columns the build decides which
\* unit vector comes out (build.svd).
svd(m) ==
  IF Len(m[1]) = 1 THEN [v |-> <<[p |-> 1, q |-> 0]>>, delta |-> 0]
  ELSE LET a == Gram(m, 1, 1)
           b == Gram(m, 1, 2)
           c == Gram(m, 2, 2)
           e1 == <<[p |-> 1, q |-> 0], [p |-> 0, q |-> 0]>>
           e2 == <<[p |-> 0, q |-> 0], [p |-> 1, q |-> 0]>>
       IN  IF Isotropic(m)
           THEN [v |-> IF build.svd = "e1" THEN e1 ELSE e2, delta |-> 0]
           ELSE IF b # 0
           THEN [v |-> <<[p |-> 2 * b, q |-> 0], [p |-> c - a, q |-> 1]>>,
                 delta |-> (a - c) * (a - c) + 4 * b * b]
           ELSE IF a > c THEN [v |-> e1, delta |-> 0]
           ELSE [v |-> e2, delta |-> 0]

\* Line 33: the score of each client, from sampled_params (times |v|^2).
ScoreOf(x, sv) == SurdSquare(Inner(x, sv.v), sv.delta)
scores(sp, sv) == [i \in 1..Len(sp) |-> ScoreOf(sp[i], sv)]

\* int(x / 2): Python's int() truncates towards zero.
TruncHalf(x) == IF x >= 0 THEN x \div 2 ELSE -((-x) \div 2)

\* Line 37: to_keep = int(num_clients - c * num_malicious)
to_keep == TruncHalf(2 * num_clients - args.c2 * args.num_malicious)

\* np.argsort: client i (0-based) comes before client j; equal scores are
\* ordered as the build's sort orders them (build.sort).
Before(s, delta, i, j) ==
  \/ SurdLess(s[i + 1], s[j + 1], delta)
  \/ /\ SurdEq(s[i + 1], s[j + 1], delta)
     /\ IF build.sort = "stable" THEN i < j ELSE i > j

argsort(s, delta) ==
  LET n == Len(s)
      rank(i) == Cardinality({j \in 0..(n - 1) : Before(s, delta, j, i)})
  IN  [r \in 1..n |-> CHOOSE i \in 0..(n - 1) : rank(i) = r - 1]

\* How many elements a[:k] has for a of length n.
SliceLen(n, k) == IF k >= 0 THEN Min(k, n) ELSE Max(n + k, 0)

\* Lines 38-39: set(np.argsort(s)[:to_keep])
Kept(s, delta) ==
  UNION {{order[r] : r \in 1..SliceLen(Len(s), to_keep)} :
           order \in {argsort(s, delta)}}

\* Line 41: set.intersection(*I_good), for at least one set.
RECURSIVE Intersection(_)
Intersection(sets) ==
  IF Len(sets) = 1 THEN sets[1]
  ELSE sets[1] \cap Intersection(Tail(sets))

\* list(S) of a set of small ints: in increasing order.
RECURSIVE ListOf(_)
ListOf(S) ==
  IF S = {} THEN <<>>
  ELSE LET m == CHOOSE x \in S : \A y \in S : x <= y
       IN  <<m>> \o ListOf(S \ {m})

\* Line 43: res = [results[i] for i in I_final]
Select(results, I_final) ==
  [k \in 1..Len(I_final) |-> results[I_final[k] + 1]]

\* flwr's aggregate (line 44): per layer, sum of num_examples * layer over
\* num_examples_total; the result is layers/den.  No results give no layers.
aggregate(res) ==
  IF res = <<>> THEN [layers |-> <<>>, den |-> 0]
  ELSE [layers |->
          [l \in 1..Len(res[1].params) |->
             [e \in 1..Len(res[1].params[l]) |->
                SumSeq([i \in 1..Len(res) |->
                          res[i].params[l][e] * res[i].num_examples])]],
        den |-> SumSeq([i \in 1..Len(res) |-> res[i].num_examples])]

\* Lines 41-45.
Aggregated(kept) == aggregate(Select(args.results, ListOf(Intersection(kept))))

---------------------------------------------------------------------------
\* main

StrategyNames ==
  {"flanders", "krum", "dnc", "fedavg", "bulyan", "trimmedmean", "fedmedian"}
AttackNames == {"na", "gaussian", "lie", "fang", "minmax"}
DatasetNames == {"mnist", "fmnist", "cifar", "cifar100", "income", "house"}

\* Lines 79 and 83: the experiments main skips.
Skipped(c) ==
  \/ c.strategy = "bulyan" /\ c.num_malicious > 20
  \/ c.attack_fn # "gaussian" /\ c.num_malicious = 0 /\ c.attack_fn # "na"

\* Line 107: os.path.exists(cfg.server.history_dir)
Exists(h) == h # "absent"

\* A main that leaves the history directory in place.
rmtreeSkipped(h) == h

\* Line 108: what shutil.rmtree leaves of a directory.
rmtree(h) == "absent"

---------------------------------------------------------------------------
\* The inputs

\* An update has two layers of one weight each.  The clients' num_examples
\* are all 0, all 1, or 0, 1, 2, ... in client order.
Updates == {<<<<x>>, <<y>>>> : x \in Vals, y \in Vals}
WeightProfiles == {"zeros", "ones", "ramp"}
Weight(profile, i) ==
  IF profile = "zeros" THEN 0 ELSE IF profile = "ones" THEN 1 ELSE i - 1

ResultLists(profiles) ==
  UNION {{[i \in 1..n |-> [params |-> u[i], num_examples |-> Weight(w, i)]] :
            u \in [1..n -> Updates], w \in profiles} : n \in 1..MaxClients}

\* The arguments of a call: fewer malicious clients than clients.
Args(profiles, cs, ms) ==
  {a \in [results : ResultLists(profiles), c2 : cs, b : 0..2,
          niters : 0..MaxIters, num_malicious : ms] :
     a.num_malicious < Len(a.results)}

Builds == [sort : {"stable", "reverse"}, svd : {"e1", "e2"}]

DefaultCfg ==
  [strategy |-> "dnc", attack_fn |-> "gaussian", num_malicious |-> 1,
   dataset |-> "mnist"]

DefaultArgs ==
  [results |-> <<[params |-> <<<<0>>, <<0>>>>, num_examples |-> 1]>>,
   c2 |-> 2, b |-> 0, niters |-> 1, num_malicious |-> 0]

NoResult == [layers |-> <<>>, den |-> -1]

\* A process that has not called aggregate_dnc yet.
Fresh ==
  /\ pc = "start"
  /\ run = 1
  /\ round = 1
  /\ it = 0
  /\ I_good = <<>>
  /\ iters = <<>>
  /\ outcome = "none"
  /\ result = NoResult
  /\ entry = 0
  /\ calls = <<>>

\* One call of aggregate_dnc in one process, over all the inputs.
Init ==
  /\ cfg = DefaultCfg
  /\ history = "absent"
  /\ prior = FALSE
  /\ args \in Args(WeightProfiles, CTwice, 0..2)
  /\ seed \in Seeds
  /\ build \in Builds
  /\ rng = 2
  /\ Fresh

\* Rounds and runs of one experiment: c = 1, one malicious client.
InitRuns ==
  /\ cfg = DefaultCfg
  /\ history = "absent"
  /\ prior = FALSE
  /\ args \in Args({"ones"}, {2}, {1})
  /\ seed \in Seeds
  /\ build \in {[sort |-> "stable", svd |-> "e1"],
               [sort |-> "reverse", svd |-> "e2"]}
  /\ rng = 2
  /\ Fresh

\* main over its configurations.
InitMain ==
  /\ cfg \in [strategy : StrategyNames \cup {"unsupported"},
              attack_fn : AttackNames \cup {"unsupported"},
              num_malicious : {0, 1, 21},
              dataset : {"mnist", "income", "unsupported"}]
  /\ history \in {"absent", "dir", "file"}
  /\ prior = (history = "dir")
  /\ args = DefaultArgs
  /\ seed \in Seeds
  /\ build = [sort |-> "stable", svd |-> "e1"]
  /\ rng = 2
  /\ Fresh

---------------------------------------------------------------------------
\* The process

\* main, lines 63-67: seed the process-wide generator.
SetSeed ==
  /\ pc = "start"
  /\ rng' = SeedState(seed)
  /\ pc' = "seeded"
  /\ UNCHANGED <<mainVars, dncVars, seed, outcome>>

\* main, lines 76-85: skip the experiment or go on.
SkipCheck ==
  /\ pc = "seeded"
  /\ pc' = IF Skipped(cfg) THEN "done" ELSE "checked"
  /\ outcome' = IF Skipped(cfg) THEN "returned" ELSE outcome
  /\ UNCHANGED <<mainVars, dncVars, seed, rng>>

\* main, lines 106-108: delete old client_params.  rmtree of a path that is
\* no directory raises.
ClearHistory ==
  /\ pc = "checked"
  /\ history' = IF history = "dir" THEN rmtree(history) ELSE history
  /\ pc' = IF history = "file" THEN "failed" ELSE "cleared"
  /\ outcome' = IF history = "file" THEN "NotADirectoryError" ELSE outcome
  /\ UNCHANGED <<cfg, prior, dncVars, seed, rng>>

\* main, lines 110-147: prepare the dataset.
PrepareDataset ==
  /\ pc = "cleared"
  /\ pc' = IF cfg.dataset \in DatasetNames THEN "dataset" ELSE "failed"
  /\ outcome' = IF cfg.dataset \in DatasetNames THEN outcome ELSE "ValueError"
  /\ UNCHANGED <<mainVars, dncVars, seed, rng>>

\* main, lines 177-280: define the strategy.
DefineStrategy ==
  /\ pc = "dataset"
  /\ pc' = IF cfg.strategy \in StrategyNames THEN "strategy" ELSE "failed"
  /\ outcome' = IF cfg.strategy \in StrategyNames THEN outcome ELSE "ValueError"
  /\ UNCHANGED <<mainVars, dncVars, seed, rng>>

\* main, lines 283-303: build the server (attacks[attack_fn] is a KeyError
\* for a name that is no key) and start the simulation.
StartSimulation ==
  /\ pc = "strategy"
  /\ pc' = IF cfg.attack_fn \in AttackNames THEN "simulation" ELSE "failed"
  /\ outcome' = IF cfg.attack_fn \in AttackNames THEN "running" ELSE "KeyError"
  /\ UNCHANGED <<mainVars, dncVars, seed, rng>>

\* aggregate_dnc, lines 11-13: a call begins.
EnterBody ==
  /\ it' = 0
  /\ I_good' = <<>>
  /\ iters' = <<>>
  /\ entry' = rng
  /\ outcome' = "running"
  /\ result' = NoResult
  /\ pc' = "loop"
  /\ UNCHANGED <<mainVars, args, seed, build, rng, run, calls>>

\* The first round's call.
Enter ==
  /\ pc = "seeded"
  /\ UNCHANGED round
  /\ EnterBody

\* A later round calls again, with the generator as the last call left it.
NextRound ==
  /\ pc = "returned"
  /\ round < MaxRounds
  /\ round' = round + 1
  /\ EnterBody

\* aggregate_dnc, lines 15-39: one iteration.  (Each \E names the one value
\* of a local variable of the loop body.)
Iterate ==
  /\ pc = "loop"
  /\ it < args.niters
  /\ \E drawn \in {DrawIndexes(rng)} :
     \E sp \in {sampled_params(drawn.idx)} :
     \E sv \in {svd(model_c(sp))} :
     \E s \in {scores(sp, sv)} :
     \E I \in {Kept(s, sv.delta)} :
        /\ rng' = drawn.state
        /\ I_good' = Append(I_good, I)
        /\ iters' = Append(iters, [indexes |-> drawn.idx, v |-> sv.v,
                                   delta |-> sv.delta, s |-> s, I |-> I])
  /\ it' = it + 1
  /\ UNCHANGED <<mainVars, args, seed, build, pc, run, round, outcome,
                 result, entry, calls>>

\* aggregate_dnc, lines 41-45: the loop is over.  set.intersection() of no
\* set at all is a TypeError.
Finish ==
  /\ pc = "loop"
  /\ it = args.niters
  /\ outcome' = IF I_good = <<>> THEN "TypeError" ELSE "returned"
  /\ result' = IF I_good = <<>> THEN NoResult ELSE Aggregated(I_good)
  /\ pc' = IF I_good = <<>> THEN "failed" ELSE "returned"
  /\ calls' = Append(calls, [run |-> run, round |-> round, entry |-> entry,
                             exit |-> rng,
                             draws |-> [t \in 1..it |-> iters[t].indexes],
                             kept |-> I_good,
                             outcome |-> outcome', result |-> result'])
  /\ UNCHANGED <<mainVars, args, seed, build, rng, run, round, it, I_good,
                 iters, entry>>

\* The run is over, after its last round or a fault; the same experiment is
\* run again, in a fresh process.
Restart ==
  /\ pc = "failed" \/ (pc = "returned" /\ round = MaxRounds)
  /\ run = 1
  /\ run' = 2
  /\ round' = 1
  /\ rng' \in Entropy
  /\ pc' = "start"
  /\ it' = 0
  /\ I_good' = <<>>
  /\ iters' = <<>>
  /\ outcome' = "none"
  /\ result' = NoResult
  /\ entry' = 0
  /\ UNCHANGED <<mainVars, args, seed, build, calls>>

Next == SetSeed \/ Enter \/ Iterate \/ Finish

NextRuns == SetSeed \/ Enter \/ Iterate \/ Finish \/ NextRound \/ Restart

NextMain ==
  \/ SetSeed
  \/ SkipCheck
  \/ ClearHistory
  \/ PrepareDataset
  \/ DefineStrategy
  \/ StartSimulation

Spec == Init /\ [][Next]_vars

SpecRuns == InitRuns /\ [][NextRuns]_vars

SpecMain == InitMain /\ [][NextMain]_vars

---------------------------------------------------------------------------
\* The claims

Finished == pc \in {"returned", "failed"}
Clients == 0..(num_clients - 1)

\* n - c * num_malicious, doubled; and whether it is a whole number.
ToKeepTwice == 2 * num_clients - args.c2 * args.num_malicious
ToKeepWhole == ToKeepTwice % 2 = 0

\* C1: whenever the intersection of the iterations' kept sets is empty, the
\* call ends in the InsufficientClients error and returns no aggregate.
C1_EmptyIntersectionFails ==
  (Finished /\ I_good # <<>> /\ Intersection(I_good) = {})
    => outcome = "InsufficientClients"

\* C2: every iteration keeps exactly n - c * num_malicious distinct client
\* indices of 0..n-1 (none when that number is not positive; stated where
\* it is whole), and no excluded client has a strictly smaller score than a
\* kept one.
C2_KeptExactlyToKeep ==
  \A t \in 1..Len(iters) :
    /\ ToKeepWhole => 2 * Cardinality(iters[t].I) = Max(ToKeepTwice, 0)
    /\ iters[t].I \subseteq Clients
    /\ \A i \in iters[t].I : \A j \in Clients \ iters[t].I :
         ~SurdLess(iters[t].s[j + 1], iters[t].s[i + 1], iters[t].delta)

\* C3: two runs of the same experiment, each seeded with the same seed, draw
\* the same coordinate indices in every iteration of a round's call, keep
\* the same sets and end with the same outcome and aggregate.
C3_SameSeedSameResult ==
  \A j \in DOMAIN calls : \A k \in DOMAIN calls :
    (calls[j].run = 1 /\ calls[k].run = 2 /\ calls[j].round = calls[k].round)
      => /\ calls[j].entry = calls[k].entry
         /\ calls[j].draws = calls[k].draws
         /\ calls[j].kept = calls[k].kept
         /\ calls[j].outcome = calls[k].outcome
         /\ calls[j].result = calls[k].result

\* Both runs have finished a first call that subsampled coordinates, every
\* iteration of it, and returned an aggregate.
C3_Witness ==
  \E j \in DOMAIN calls : \E k \in DOMAIN calls :
    /\ calls[j].run = 1 /\ calls[k].run = 2
    /\ calls[j].round = 1 /\ calls[k].round = 1
    /\ Len(calls[k].draws) >= 2
    /\ \A t \in 1..Len(calls[k].draws) : calls[k].draws[t] # <<>>
    /\ calls[k].outcome = "returned"
    /\ calls[k].result.layers # <<>>

\* C4: with num_malicious = 0 every iteration keeps all n clients and the
\* call returns the num_examples-weighted mean of all the updates.
C4_NoMaliciousIsFedAvg ==
  (Finished /\ args.num_malicious = 0)
    => /\ outcome = "returned"
       /\ \A t \in 1..Len(iters) : iters[t].I = Clients
       /\ result = aggregate(args.results)

\* C5: with an unsupported strategy or attack name main neither starts the
\* simulation nor returns normally.
C5_UnsupportedNameFails ==
  (cfg.strategy \notin StrategyNames \/ cfg.attack_fn \notin AttackNames)
    => (pc # "simulation" /\ outcome # "returned")

\* C6: when the simulation starts, nothing is left at the history directory.
C6_HistoryCleared == pc = "simulation" => ~Exists(history)

\* The simulation has started where an earlier run had left its records.
C6_Witness == pc = "simulation" /\ prior

\* C7: a call leaves the process-wide generator as it found it, and two
\* calls in a row with the same arguments give the same kept sets and the
\* same aggregate.
C7_NoGlobalGenerator ==
  /\ \A k \in DOMAIN calls : calls[k].exit = calls[k].entry
  /\ \A j \in DOMAIN calls : \A k \in DOMAIN calls :
       (calls[j].run = calls[k].run /\ calls[k].round = calls[j].round + 1)
         => /\ calls[j].kept = calls[k].kept
            /\ calls[j].result = calls[k].result

\* The updates iteration t scored, centered (n times them, in the model),
\* and n^2 times the score of the claim: the squared inner product of the
\* centered update with v.
CenteredAt(t) == model_c(sampled_params(iters[t].indexes))
CenteredScore(t, i) ==
  SurdSquare(Inner(CenteredAt(t)[i], iters[t].v), iters[t].delta)

\* C8: the score of a client is the squared inner product of its centered
\* update with v (stated where the singular values differ, so that v is
\* the one dominant direction).
C8_ScoreIsCentered ==
  \A t \in 1..Len(iters) : \A i \in 1..num_clients :
    ~Isotropic(CenteredAt(t))
      => SurdEq([p |-> num_clients * num_clients * iters[t].s[i].p,
                 q |-> num_clients * num_clients * iters[t].s[i].q],
                CenteredScore(t, i), iters[t].delta)

\* C9: for niters >= 1 the final kept set is the intersection of the
\* iterations' kept sets, a subset of each, of no more than
\* n - c * num_malicious clients (none when that is not positive), and the
\* aggregate is the weighted mean of those clients' original updates.
C9_FinalIsIntersection ==
  (pc = "returned" /\ args.niters >= 1)
    => LET final == Intersection(I_good)
       IN  /\ \A t \in 1..Len(I_good) : final \subseteq I_good[t]
           /\ \A i \in Clients :
                (\A t \in 1..Len(I_good) : i \in I_good[t]) => i \in final
           /\ 2 * Cardinality(final) <= Max(ToKeepTwice, 0)
           /\ result = aggregate(Select(args.results, ListOf(final)))

\* All the submitted updates are the same, every client has examples, and
\* at least one client is to be kept.
IdenticalUpdates ==
  /\ \A i \in 1..num_clients : args.results[i].params = args.results[1].params
  /\ \A i \in 1..num_clients : args.results[i].num_examples > 0
  /\ ToKeepTwice >= 2

\* C10: with identical updates the call completes without a fault, keeps the
\* same to_keep clients in every iteration and returns the common update.
C10_IdenticalUpdates ==
  (Finished /\ IdenticalUpdates)
    => /\ outcome = "returned"
       /\ \A t \in 1..Len(iters) :
            iters[t].I = iters[1].I /\ Cardinality(iters[t].I) = to_keep
       /\ result.den > 0
       /\ \A l \in 1..Len(args.results[1].params) :
            \A e \in 1..Len(args.results[1].params[l]) :
              result.layers[l][e] = result.den * args.results[1].params[l][e]

====
